---- MODULE Spec2Model ----
(***************************************************************************)
(* Model of content/finetuning-llm/data_processing/processor.py: the       *)
(* Processor class that turns raw dialogue records into instruction-tuning *)
(* samples.  A Python str is a sequence of one-character strings, None is  *)
(* the record [t |-> "None"], and the outcome of a call is either          *)
(* [kind |-> "return", val |-> v] or [kind |-> "raise", exc |-> e].        *)
(***************************************************************************)
EXTENDS Integers, Sequences, FiniteSets, TLC

VARIABLES
    self,     \* the Processor instance: system_prompt, seed, tokenizer
    call,     \* the call in progress: [fn |-> name, ...arguments]
    pc,       \* "call" before the body has run, "done" after; the stages of _process
    local,    \* locals of process_dataset: the splits left, the split in hand, the dict built
    ret,      \* the outcome of the call in progress
    previous, \* the outcome of the call completed before this one, on the same arguments
    generator \* numpy's default_rng(self.seed).permutation(n), for each n asked so far

vars == <<self, call, pc, local, ret, previous, generator>>

None == [t |-> "None"]
NoOutcome == [kind |-> "none"]
Return(v) == [kind |-> "return", val |-> v]
Raise(e) == [kind |-> "raise", exc |-> e]

\* Where a value is used several times it is bound once, as the x of
\*     CHOOSE y \in {e(x) : x \in {value}} : TRUE
\* which is e(value).

(***************************************************************************)
(* Strings                                                                 *)
(***************************************************************************)
Whitespace == {" ", "\t", "\n", "\r", "\f"}

IsSpace(c) == c \in Whitespace

RECURSIVE Concat(_)
Concat(ss) == IF ss = <<>> THEN <<>> ELSE Head(ss) \o Concat(Tail(ss))

RECURSIVE JoinFrom(_, _, _)
JoinFrom(sep, ss, i) ==
    IF i > Len(ss) THEN <<>>
    ELSE IF i = Len(ss) THEN ss[i]
    ELSE ss[i] \o sep \o JoinFrom(sep, ss, i + 1)

\* str.join
Join(sep, ss) == JoinFrom(sep, ss, 1)

\* index just past the longest run of characters from i on that are not in stop
RECURSIVE RunEnd(_, _, _)
RunEnd(text, i, stop) ==
    IF i > Len(text) \/ text[i] \in stop THEN i ELSE RunEnd(text, i + 1, stop)

HasAt(text, i, lit) ==
    /\ i + Len(lit) - 1 <= Len(text)
    /\ \A k \in 1..Len(lit) : text[i + k - 1] = lit[k]

\* index just past the match of  http\S+|@[^\s]+|\^[^ ]+  that starts at i, or 0
MatchEnd(text, i) ==
    IF HasAt(text, i, <<"h", "t", "t", "p">>) /\ i + 4 <= Len(text) /\ ~IsSpace(text[i + 4])
        THEN RunEnd(text, i + 4, Whitespace)
    ELSE IF text[i] = "@" /\ i + 1 <= Len(text) /\ ~IsSpace(text[i + 1])
        THEN RunEnd(text, i + 1, Whitespace)
    ELSE IF text[i] = "^" /\ i + 1 <= Len(text) /\ text[i + 1] # " "
        THEN RunEnd(text, i + 1, {" "})
    ELSE 0

\* re.sub(r"http\S+|@[^\s]+|\^[^ ]+", "", text): leftmost non-overlapping matches
RECURSIVE RemovePatterns(_, _)
RemovePatterns(text, i) ==
    IF i > Len(text) THEN <<>>
    ELSE LET e == MatchEnd(text, i)
         IN  IF e > 0 THEN RemovePatterns(text, e)
             ELSE <<text[i]>> \o RemovePatterns(text, i + 1)

\* index just past the run of whitespace that starts at i
RECURSIVE SpaceEnd(_, _)
SpaceEnd(text, i) ==
    IF i > Len(text) \/ ~IsSpace(text[i]) THEN i ELSE SpaceEnd(text, i + 1)

\* re.sub(r"\s+", " ", text)
RECURSIVE CollapseSpaces(_, _)
CollapseSpaces(text, i) ==
    IF i > Len(text) THEN <<>>
    ELSE IF IsSpace(text[i]) THEN <<" ">> \o CollapseSpaces(text, SpaceEnd(text, i))
    ELSE <<text[i]>> \o CollapseSpaces(text, i + 1)

RECURSIVE LastNonSpace(_, _)
LastNonSpace(text, j) ==
    IF j = 0 \/ ~IsSpace(text[j]) THEN j ELSE LastNonSpace(text, j - 1)

\* str.strip()
Strip(text) ==
    LET a == SpaceEnd(text, 1)
        b == LastNonSpace(text, Len(text))
    IN  IF a > b THEN <<>> ELSE SubSeq(text, a, b)

\* mutant: the whitespace is collapsed before the patterns are removed
clean_text_CollapseFirst(text) == Strip(RemovePatterns(CollapseSpaces(text, 1), 1))

clean_text(text) == Strip(CollapseSpaces(RemovePatterns(text, 1), 1))

(***************************************************************************)
(* Processor.clean_text on its own                                         *)
(***************************************************************************)
MaxPieces == 6

\* the fragments the texts are built from: the literals of the patterns, a
\* lone "h", the two kinds of whitespace the patterns tell apart, and an
\* ordinary character
Pieces == {<<"h", "t", "t", "p">>, <<"h">>, <<"@">>, <<"^">>, <<" ">>, <<"\n">>, <<"a">>}

\* the ways to line up at most MaxPieces fragments
PieceSeqs(n) == [1..n -> Pieces]

NoInstance == [t |-> "none"]
NoLocals == [t |-> "none"]

\* nothing of process_dataset is under way
Idle ==
    /\ local = NoLocals
    /\ previous = NoOutcome
    /\ generator = <<>>

frame == <<local, previous, generator>>

InitClean ==
    /\ self = NoInstance
    /\ \E n \in 0..MaxPieces : \E ps \in PieceSeqs(n) :
            call = [fn |-> "clean_text", text |-> Concat(ps)]
    /\ pc = "call"
    /\ ret = NoOutcome
    /\ Idle

CleanText ==
    /\ pc = "call"
    /\ call.fn = "clean_text"
    /\ ret' = Return(clean_text(call.text))
    /\ pc' = "done"
    /\ UNCHANGED <<self, call, frame>>

SpecClean == InitClean /\ [][CleanText]_vars

\* some match of the removal pattern starts somewhere in text
HasPattern(text) == \E i \in 1..Len(text) : MatchEnd(text, i) > 0

\* text is trimmed and its only whitespace is single spaces
IsNormalised(text) ==
    /\ \A i \in 1..Len(text) : IsSpace(text[i]) => text[i] = " "
    /\ \A i \in 1..(Len(text) - 1) : ~(text[i] = " " /\ text[i + 1] = " ")
    /\ Len(text) > 0 => (text[1] # " " /\ text[Len(text)] # " ")

\* C9: clean_text always returns, its result is a fixed point of clean_text,
\* holds no URL, mention or caret token, and is trimmed with single spaces only.
C9_CleanIdempotent ==
    (pc = "done" /\ call.fn = "clean_text") =>
        /\ ret.kind = "return"
        /\ clean_text(ret.val) = ret.val
        /\ ~HasPattern(ret.val)
        /\ IsNormalised(ret.val)

\* a match was removed from between two words, and the whitespace on its
\* two sides became one space
C9_Witness ==
    /\ pc = "done"
    /\ call.fn = "clean_text"
    /\ call.text = <<"a", " ", "@", "a", "\n", "a">>
    /\ ret = Return(<<"a", " ", "a">>)

(***************************************************************************)
(* Processor.format_conversation                                           *)
(***************************************************************************)
MaxTurns == 2

UserPrefix == <<"u", "s", "e", "r", ":", " ">>
AgentPrefix == <<"a", "g", "e", "n", "t", ":", " ">>
NL == <<"\n">>

\* one turn of a log
Turn(u, s) == ("user utterance" :> u) @@ ("system response" :> s)

\* f"user: {self.clean_text(turn['user utterance'])}\n" f"agent: {...}"
TurnText(turn) ==
    UserPrefix \o clean_text(turn["user utterance"]) \o NL
        \o AgentPrefix \o clean_text(turn["system response"])

\* mutant: the utterances are written as they are, without cleaning
format_conversation_Raw(log) ==
    Join(NL, [i \in 1..Len(log) |->
        UserPrefix \o log[i]["user utterance"] \o NL
            \o AgentPrefix \o log[i]["system response"]])

format_conversation(log) == Join(NL, [i \in 1..Len(log) |-> TurnText(log[i])])

\* utterances: empty, plain, holding a newline, holding a mention, padded
Utterances ==
    { <<>>, <<"a">>, <<"a", "\n", "b">>, <<"@", "a", " ", "b">>, <<" ", "b", " ">> }

Turns == {Turn(u, s) : u \in Utterances, s \in Utterances}

Logs == UNION {[1..n -> Turns] : n \in 0..MaxTurns}

InitFormat ==
    /\ self = NoInstance
    /\ call \in {[fn |-> "format_conversation", log |-> l] : l \in Logs}
    /\ pc = "call"
    /\ ret = NoOutcome
    /\ Idle

FormatConversation ==
    /\ pc = "call"
    /\ call.fn = "format_conversation"
    /\ ret' = Return(format_conversation(call.log))
    /\ pc' = "done"
    /\ UNCHANGED <<self, call, frame>>

SpecFormat == InitFormat /\ [][FormatConversation]_vars

\* text.split("\n")
RECURSIVE SplitLines(_, _)
SplitLines(text, i) ==
    LET e == RunEnd(text, i, {"\n"})
    IN  IF e > Len(text) THEN <<SubSeq(text, i, Len(text))>>
        ELSE <<SubSeq(text, i, e - 1)>> \o SplitLines(text, e + 1)

\* C10: N turns give the empty string when N = 0 and otherwise exactly 2N
\* lines, line 2i-1 "user: " + clean(user utterance of turn i) and line 2i
\* "agent: " + clean(system response of turn i), in the order of the turns.
C10_FormatLines ==
    (pc = "done" /\ call.fn = "format_conversation") =>
        LET n == Len(call.log)
            lines == SplitLines(ret.val, 1)
        IN  /\ ret.kind = "return"
            /\ n = 0 => ret.val = <<>>
            /\ n > 0 =>
                /\ Len(lines) = 2 * n
                /\ \A i \in 1..n :
                    /\ lines[2 * i - 1] = UserPrefix \o clean_text(call.log[i]["user utterance"])
                    /\ lines[2 * i] = AgentPrefix \o clean_text(call.log[i]["system response"])

\* two turns, the first with a newline in its utterance and an empty response
C10_Witness ==
    /\ pc = "done"
    /\ call.fn = "format_conversation"
    /\ call.log = <<Turn(<<"a", "\n", "b">>, <<>>), Turn(<<"a">>, <<" ", "b", " ">>)>>
    /\ ret = Return(UserPrefix \o <<"a", " ", "b">> \o NL \o AgentPrefix \o NL
                    \o UserPrefix \o <<"a">> \o NL \o AgentPrefix \o <<"b">>)

(***************************************************************************)
(* json.loads, on the JSON the records hold: objects, arrays, strings      *)
(* without escapes, non-negative integers, true, false and null.           *)
(***************************************************************************)
JNull == [t |-> "null"]
JBool(b) == [t |-> "bool", b |-> b]
JNum(n) == [t |-> "num", n |-> n]
JStr(s) == [t |-> "str", s |-> s]
JArr(a) == [t |-> "arr", a |-> a]
\* a dict: its items in insertion order, each key once
JObj(o) == [t |-> "obj", o |-> o]
Item(k, v) == [k |-> k, v |-> v]

HasKey(o, k) == \E i \in 1..Len(o) : o[i].k = k

\* d[k] = v on a dict: a key already there keeps its place
DictSet(o, k, v) ==
    IF HasKey(o, k)
    THEN [i \in 1..Len(o) |-> IF o[i].k = k THEN Item(k, v) ELSE o[i]]
    ELSE Append(o, Item(k, v))

DictGet(o, k) == o[CHOOSE i \in 1..Len(o) : o[i].k = k].v

JsonWhitespace == {" ", "\t", "\n", "\r"}
ControlChars == {"\t", "\n", "\r", "\f"}
Digits == <<"0", "1", "2", "3", "4", "5", "6", "7", "8", "9">>
IsDigit(c) == \E d \in 1..Len(Digits) : Digits[d] = c
DigitVal(c) == (CHOOSE d \in 1..Len(Digits) : Digits[d] = c) - 1

RECURSIVE JsonSkip(_, _)
JsonSkip(s, i) ==
    IF i > Len(s) \/ s[i] \notin JsonWhitespace THEN i ELSE JsonSkip(s, i + 1)

ParseFail == [ok |-> FALSE, val |-> JNull, pos |-> 0]
ParseOk(v, p) == [ok |-> TRUE, val |-> v, pos |-> p]

\* s[i] is the opening quote; a raw control character or an escape ends the parse
ParseString(s, i) ==
    LET e == RunEnd(s, i + 1, {"\""} \cup ControlChars \cup {"\\"})
    IN  IF e > Len(s) \/ s[e] # "\"" THEN ParseFail
        ELSE ParseOk(JStr(SubSeq(s, i + 1, e - 1)), e + 1)

RECURSIVE DigitsEnd(_, _)
DigitsEnd(s, i) == IF i > Len(s) \/ ~IsDigit(s[i]) THEN i ELSE DigitsEnd(s, i + 1)

RECURSIVE NumberOf(_, _, _, _)
NumberOf(s, i, e, acc) ==
    IF i >= e THEN acc ELSE NumberOf(s, i + 1, e, 10 * acc + DigitVal(s[i]))

\* s[i] is a digit: 0, or a run of digits that does not start with 0
ParseNumber(s, i) ==
    IF s[i] = "0" THEN ParseOk(JNum(0), i + 1)
    ELSE LET e == DigitsEnd(s, i) IN ParseOk(JNum(NumberOf(s, i, e, 0)), e)

RECURSIVE ParseValue(_, _)
RECURSIVE ParseElements(_, _, _)
RECURSIVE ParseMembers(_, _, _)
RECURSIVE ParseMemberValue(_, _)
RECURSIVE AfterElement(_, _, _)
RECURSIVE AfterMember(_, _, _, _)

ParseValue(s, i) ==
    LET j == JsonSkip(s, i)
    IN  IF j > Len(s) THEN ParseFail
        ELSE IF s[j] = "{" THEN
            LET k == JsonSkip(s, j + 1)
            IN  IF k <= Len(s) /\ s[k] = "}" THEN ParseOk(JObj(<<>>), k + 1)
                ELSE ParseMembers(s, j + 1, <<>>)
        ELSE IF s[j] = "[" THEN
            LET k == JsonSkip(s, j + 1)
            IN  IF k <= Len(s) /\ s[k] = "]" THEN ParseOk(JArr(<<>>), k + 1)
                ELSE ParseElements(s, j + 1, <<>>)
        ELSE IF s[j] = "\"" THEN ParseString(s, j)
        ELSE IF HasAt(s, j, <<"n", "u", "l", "l">>) THEN ParseOk(JNull, j + 4)
        ELSE IF HasAt(s, j, <<"t", "r", "u", "e">>) THEN ParseOk(JBool(TRUE), j + 4)
        ELSE IF HasAt(s, j, <<"f", "a", "l", "s", "e">>) THEN ParseOk(JBool(FALSE), j + 5)
        ELSE IF IsDigit(s[j]) THEN ParseNumber(s, j)
        ELSE ParseFail

\* what follows an element r of an array: a comma and more, or the bracket
AfterElement(s, r, acc) ==
    CHOOSE y \in {
        IF k > Len(s) THEN ParseFail
        ELSE IF s[k] = "," THEN ParseElements(s, k + 1, Append(acc, r.val))
        ELSE IF s[k] = "]" THEN ParseOk(JArr(Append(acc, r.val)), k + 1)
        ELSE ParseFail : k \in {JsonSkip(s, r.pos)}} : TRUE

\* the elements of an array from i on, after those in acc
ParseElements(s, i, acc) ==
    CHOOSE y \in {IF r.ok THEN AfterElement(s, r, acc) ELSE ParseFail :
                  r \in {ParseValue(s, i)}} : TRUE

\* the key of a member, from i on
ParseKey(s, i) ==
    CHOOSE y \in {IF j <= Len(s) /\ s[j] = "\"" THEN ParseString(s, j) ELSE ParseFail :
                  j \in {JsonSkip(s, i)}} : TRUE

\* the value of the member whose key was read, from the colon on
ParseMemberValue(s, key) ==
    IF ~key.ok THEN ParseFail
    ELSE CHOOSE y \in {IF c <= Len(s) /\ s[c] = ":" THEN ParseValue(s, c + 1) ELSE ParseFail :
                       c \in {JsonSkip(s, key.pos)}} : TRUE

\* what follows a member key: r of an object: a comma and more, or the brace
AfterMember(s, key, r, acc) ==
    CHOOSE y \in {
        IF k > Len(s) THEN ParseFail
        ELSE IF s[k] = "," THEN ParseMembers(s, k + 1, DictSet(acc, key.val.s, r.val))
        ELSE IF s[k] = "}" THEN ParseOk(JObj(DictSet(acc, key.val.s, r.val)), k + 1)
        ELSE ParseFail : k \in {JsonSkip(s, r.pos)}} : TRUE

\* the members of an object from i on, after those in acc
ParseMembers(s, i, acc) ==
    CHOOSE y \in {
        CHOOSE z \in {IF r.ok THEN AfterMember(s, key, r, acc) ELSE ParseFail :
                      r \in {ParseMemberValue(s, key)}} : TRUE
        : key \in {ParseKey(s, i)}} : TRUE

\* json.loads(s): one value, with nothing but whitespace after it
json_loads(s) ==
    CHOOSE y \in {IF r.ok /\ JsonSkip(s, r.pos) > Len(s) THEN Return(r.val)
                  ELSE Raise("JSONDecodeError") : r \in {ParseValue(s, 1)}} : TRUE

\* json.dumps(v), the way the documents are written
RECURSIVE Dumps(_)
Dumps(v) ==
    IF v.t = "null" THEN <<"n", "u", "l", "l">>
    ELSE IF v.t = "bool" THEN
        IF v.b THEN <<"t", "r", "u", "e">> ELSE <<"f", "a", "l", "s", "e">>
    ELSE IF v.t = "num" THEN <<Digits[v.n + 1]>>
    ELSE IF v.t = "str" THEN <<"\"">> \o v.s \o <<"\"">>
    ELSE IF v.t = "arr" THEN
        <<"[">> \o Join(<<",", " ">>, [i \in 1..Len(v.a) |-> Dumps(v.a[i])]) \o <<"]">>
    ELSE <<"{">> \o Join(<<",", " ">>, [i \in 1..Len(v.o) |->
            <<"\"">> \o v.o[i].k \o <<"\"">> \o <<":", " ">> \o Dumps(v.o[i].v)]) \o <<"}">>

(***************************************************************************)
(* Processor.extract_summary                                               *)
(***************************************************************************)
KeySummaries == <<"s", "u", "m", "m", "a", "r", "i", "e", "s">>
KeyAbstractive == <<"a", "b", "s", "t", "r", "a", "c", "t", "i", "v", "e", "_", "s", "u", "m", "m", "a", "r", "i", "e", "s">>

\* v.get(key, default): only a dict has get
PyGet(v, key, default) ==
    IF v.t # "obj" THEN Raise("AttributeError")
    ELSE IF HasKey(v.o, key) THEN Return(DictGet(v.o, key))
    ELSE Return(default)

\* bool(v)
Truthy(v) ==
    IF v.t = "null" THEN FALSE
    ELSE IF v.t = "bool" THEN v.b
    ELSE IF v.t = "num" THEN v.n # 0
    ELSE IF v.t = "str" THEN Len(v.s) > 0
    ELSE IF v.t = "arr" THEN Len(v.a) > 0
    ELSE Len(v.o) > 0

\* v[0] of a truthy v: the first element, the first character, or an error
PyFirst(v) ==
    IF v.t = "arr" THEN Return(v.a[1])
    ELSE IF v.t = "str" THEN Return(JStr(<<v.s[1]>>))
    ELSE IF v.t = "obj" THEN Raise("KeyError")
    ELSE Raise("TypeError")

\* " ".join(v): v is iterated, and every item must be a str
SpaceJoin(v) ==
    IF v.t = "str" THEN Return(Join(<<" ">>, [i \in 1..Len(v.s) |-> <<v.s[i]>>]))
    ELSE IF v.t = "obj" THEN Return(Join(<<" ">>, [i \in 1..Len(v.o) |-> v.o[i].k]))
    ELSE IF v.t = "arr" THEN
        IF \A i \in 1..Len(v.a) : v.a[i].t = "str"
        THEN Return(Join(<<" ">>, [i \in 1..Len(v.a) |-> v.a[i].s]))
        ELSE Raise("TypeError")
    ELSE Raise("TypeError")

\* " ".join(abstractive[0]) if abstractive else ""
FirstJoined(abstractive) ==
    IF ~Truthy(abstractive) THEN Return(<<>>)
    ELSE CHOOSE y \in {IF first.kind = "raise" THEN first ELSE SpaceJoin(first.val) :
                       first \in {PyFirst(abstractive)}} : TRUE

\* summaries.get("abstractive_summaries", []) and the return expression
SummaryOf(summaries) ==
    CHOOSE y \in {IF abstractive.kind = "raise" THEN abstractive
                  ELSE FirstJoined(abstractive.val) :
                  abstractive \in {PyGet(summaries, KeyAbstractive, JArr(<<>>))}} : TRUE

\* json.loads(original_info).get("summaries", {}) onwards
SummaryOfDoc(doc) ==
    CHOOSE y \in {IF summaries.kind = "raise" THEN summaries ELSE SummaryOf(summaries.val) :
                  summaries \in {PyGet(doc, KeySummaries, JObj(<<>>))}} : TRUE

extract_summary(original_info) ==
    CHOOSE y \in {IF doc.kind = "raise" THEN doc ELSE SummaryOfDoc(doc.val) :
                  doc \in {json_loads(original_info)}} : TRUE

NotJson == <<"n", "o", "t", " ", "j", "s", "o", "n">>

MaxFragments == 2
MaxSummaries == 2

Fragments == {JStr(<<"a">>), JStr(<<"b">>)}

\* values that are not what the schema puts in their place
Misfits ==
    { JNull, JNum(0), JNum(1), JBool(TRUE), JStr(<<>>), JStr(<<"a", "b">>),
      JObj(<<>>), JObj(<<Item(<<"a">>, JNull)>>) }

\* one summary: a list of string fragments
SummaryLists == {JArr(a) : a \in UNION {[1..n -> Fragments] : n \in 0..MaxFragments}}

InnerValues == SummaryLists \cup Misfits \cup {JArr(<<JStr(<<"a">>), JNum(1)>>)}

AbstractiveValues ==
    {JArr(a) : a \in UNION {[1..n -> InnerValues] : n \in 0..MaxSummaries}} \cup Misfits

SummariesValues ==
    {JObj(<<Item(KeyAbstractive, a)>>) : a \in AbstractiveValues}
        \cup Misfits \cup {JArr(<<>>)}

DocValues ==
    {JObj(<<Item(KeySummaries, s)>>) : s \in SummariesValues}
        \cup {JObj(<<Item(<<"a">>, JNum(1)), Item(KeySummaries, s)>>) : s \in SummaryLists}
        \cup Misfits \cup {JArr(<<>>)}

\* the documents as written, each also cut short by its last character, and
\* text that is no JSON at all
DialogInfos ==
    {Dumps(v) : v \in DocValues}
        \cup {SubSeq(Dumps(v), 1, Len(Dumps(v)) - 1) : v \in DocValues}
        \cup {<<>>, NotJson, <<"{", "}", " ", "{", "}">>}

InitExtract ==
    /\ self = NoInstance
    /\ call \in {[fn |-> "extract_summary", original_info |-> s] : s \in DialogInfos}
    /\ pc = "call"
    /\ ret = NoOutcome
    /\ Idle

ExtractSummary ==
    /\ pc = "call"
    /\ call.fn = "extract_summary"
    /\ ret' = extract_summary(call.original_info)
    /\ pc' = "done"
    /\ UNCHANGED <<self, call, frame>>

SpecExtract == InitExtract /\ [][ExtractSummary]_vars

\* what the schema of "original dialog info" allows: summaries, when there,
\* is an object, and abstractive_summaries, when there, a list of lists of strings
IsExpectedInfo(v) ==
    /\ v.t = "obj"
    /\ HasKey(v.o, KeySummaries) =>
        LET s == DictGet(v.o, KeySummaries)
        IN  /\ s.t = "obj"
            /\ HasKey(s.o, KeyAbstractive) =>
                LET a == DictGet(s.o, KeyAbstractive)
                IN  /\ a.t = "arr"
                    /\ \A i \in 1..Len(a.a) :
                        /\ a.a[i].t = "arr"
                        /\ \A j \in 1..Len(a.a[i].a) : a.a[i].a[j].t = "str"

\* the list under summaries.abstractive_summaries of a document of the schema
AbstractiveOf(v) ==
    IF ~HasKey(v.o, KeySummaries) THEN <<>>
    ELSE LET s == DictGet(v.o, KeySummaries)
         IN  IF ~HasKey(s.o, KeyAbstractive) THEN <<>>
             ELSE DictGet(s.o, KeyAbstractive).a

\* C3: a string that does not parse to the expected structure makes
\* extract_summary fail; otherwise it returns "" when abstractive_summaries is
\* absent or empty, and else the fragments of the first inner list joined by
\* single spaces.
C3_ExtractAsReference ==
    (pc = "done" /\ call.fn = "extract_summary") =>
        LET doc == json_loads(call.original_info)
        IN  IF doc.kind = "raise" \/ ~IsExpectedInfo(doc.val) THEN ret.kind = "raise"
            ELSE LET a == AbstractiveOf(doc.val)
                 IN  IF a = <<>> THEN ret = Return(<<>>)
                     ELSE ret = Return(Join(<<" ">>, [j \in 1..Len(a[1].a) |-> a[1].a[j].s]))

(***************************************************************************)
(* Processor.generate_prompt                                               *)
(***************************************************************************)
DEFAULT_SYSTEM_PROMPT ==
    <<"S", "u", "m", "m", "a", "r", "i", "z", "e", " ", "t", "h", "i", "s", " ", "c", "o", "n", "v", "e", "r", "s", "a", "t", "i", "o", "n", " ", "b", "e", "t", "w", "e", "e", "n", " ", "a", " ", "h", "u", "m", "a", "n", " ", "a", "n", "d", " ", "A", "I", " ", "a", "s", "s", "i", "s", "t", "a", "n", "t", ",", " ">>
        \o <<"c", "a", "p", "t", "u", "r", "i", "n", "g", " ", "k", "e", "y", " ", "p", "o", "i", "n", "t", "s", " ", "a", "n", "d", " ", "m", "a", "i", "n", "t", "a", "i", "n", "i", "n", "g", " ", "c", "o", "n", "t", "e", "x", "t", ".">>

COLUMNS_TO_REMOVE ==
    {"original dialog id", "new dialog id", "dialog index", "original dialog info", "log", "prompt"}

DEFAULT_SEED == 42

\* Processor(tokenizer, system_prompt, seed)
Processor(tokenizer, system_prompt, seed) ==
    [system_prompt |-> system_prompt, seed |-> seed, tokenizer |-> tokenizer]

\* a str argument, beside None
PyStr(s) == [t |-> "str", s |-> s]

InstructionHeader == <<"#", "#", "#", " ", "I", "n", "s", "t", "r", "u", "c", "t", "i", "o", "n", ":", " ">>
InputHeader == <<"#", "#", "#", " ", "I", "n", "p", "u", "t", ":", "\n">>
ResponseHeader == <<"#", "#", "#", " ", "R", "e", "s", "p", "o", "n", "s", "e", ":", "\n">>

\* summary is None or a str; "if summary" holds for a str that is not empty
generate_prompt(me, conversation, summary) ==
    InstructionHeader \o me.system_prompt \o <<"\n", "\n">>
        \o InputHeader \o conversation \o <<"\n", "\n">>
        \o (IF summary.t = "str" /\ summary.s # <<>>
            THEN ResponseHeader \o summary.s ELSE ResponseHeader)

MaxSummaryLen == 3

SystemPrompts == {DEFAULT_SYSTEM_PROMPT, <<"S">>}

SummaryChars == {"a", "S", " ", "\n"}

Conversations ==
    {format_conversation(l) : l \in {<<>>, <<Turn(<<"a">>, <<"b">>)>>}} \cup {<<"C">>}

InitPrompt ==
    /\ \E p \in SystemPrompts : self = Processor(None, p, DEFAULT_SEED)
    /\ \E c \in Conversations :
        \/ call = [fn |-> "generate_prompt", conversation |-> c, summary |-> None]
        \/ \E n \in 0..MaxSummaryLen : \E s \in [1..n -> SummaryChars] :
            call = [fn |-> "generate_prompt", conversation |-> c, summary |-> PyStr(s)]
    /\ pc = "call"
    /\ ret = NoOutcome
    /\ Idle

GeneratePrompt ==
    /\ pc = "call"
    /\ call.fn = "generate_prompt"
    /\ ret' = Return(generate_prompt(self, call.conversation, call.summary))
    /\ pc' = "done"
    /\ UNCHANGED <<self, call, frame>>

SpecPrompt == InitPrompt /\ [][GeneratePrompt]_vars

EndsWith(text, suffix) ==
    /\ Len(suffix) <= Len(text)
    /\ SubSeq(text, Len(text) - Len(suffix) + 1, Len(text)) = suffix

\* the text up to and including the line "### Input:\n<conversation>\n\n"
PromptHead(me, conversation) ==
    InstructionHeader \o me.system_prompt \o <<"\n", "\n">>
        \o InputHeader \o conversation \o <<"\n", "\n">>

\* C2: the prompt is the instruction and input sections followed by the
\* response header alone when the summary is None or blank after trimming,
\* and by the header and the summary otherwise.
C2_ResponseSection ==
    (pc = "done" /\ call.fn = "generate_prompt") =>
        LET head == PromptHead(self, call.conversation)
        IN  /\ ret.kind = "return"
            /\ IF call.summary.t = "None" \/ Strip(call.summary.s) = <<>>
               THEN ret.val = head \o ResponseHeader
               ELSE ret.val = head \o ResponseHeader \o call.summary.s

(***************************************************************************)
(* Processor.process_sample                                                *)
(***************************************************************************)
\* a list held in a record, beside the strs held there
PyList(a) == [t |-> "list", a |-> a]

ColLog == "log"
ColInfo == "original dialog info"

\* the dict process_sample returns
Processed(conversation, summary, text) ==
    ("conversation" :> PyStr(conversation)) @@ ("summary" :> PyStr(summary))
        @@ ("text" :> PyStr(text))

\* the return statement, given the conversation and what extract_summary gave
SampleResult(me, conversation, summary) ==
    IF summary.kind = "raise" THEN summary
    ELSE Return(Processed(conversation, summary.val,
            generate_prompt(me, conversation,
                IF Strip(summary.val) # <<>> THEN PyStr(summary.val) ELSE None)))

\* sample.get("log", []) gives [] for a missing log; sample["original dialog
\* info"] raises KeyError for missing dialog info
process_sample(me, sample) ==
    CHOOSE y \in {SampleResult(me, conversation, summary) :
        conversation \in
            {format_conversation(IF ColLog \in DOMAIN sample THEN sample[ColLog].a ELSE <<>>)},
        summary \in
            {IF ColInfo \in DOMAIN sample THEN extract_summary(sample[ColInfo].s)
             ELSE Raise("KeyError")}} : TRUE

\* {"summaries": {"abstractive_summaries": [fragments]}}
InfoWith(fragments) ==
    Dumps(JObj(<<Item(KeySummaries, JObj(<<Item(KeyAbstractive,
        JArr(<<JArr([i \in 1..Len(fragments) |-> JStr(fragments[i])])>>))>>))>>))

SampleInfos ==
    { InfoWith(<<<<"a">>, <<"b">>>>), InfoWith(<<<<" ">>>>), InfoWith(<<>>),
      Dumps(JObj(<<>>)), NotJson, Dumps(JArr(<<>>)) }

SampleLogs == {l \in Logs : Len(l) <= 1}

\* the fields a sample may hold beside the two that are read
Opaque == PyStr(<<"x">>)

\* the function with the empty domain
EmptyDict == <<>>

Samples ==
    { l @@ i @@ o :
        l \in {EmptyDict} \cup {ColLog :> PyList(x) : x \in SampleLogs},
        i \in {EmptyDict} \cup {ColInfo :> PyStr(x) : x \in SampleInfos},
        o \in {EmptyDict, "prompt" :> Opaque} }

InitSample ==
    /\ \E p \in SystemPrompts : self = Processor(None, p, DEFAULT_SEED)
    /\ call \in {[fn |-> "process_sample", sample |-> x] : x \in Samples}
    /\ pc = "call"
    /\ ret = NoOutcome
    /\ Idle

ProcessSample ==
    /\ pc = "call"
    /\ call.fn = "process_sample"
    /\ ret' = process_sample(self, call.sample)
    /\ pc' = "done"
    /\ UNCHANGED <<self, call, frame>>

SpecSample == InitSample /\ [][ProcessSample]_vars

\* C1: a sample that lacks "log" or lacks "original dialog info" makes
\* process_sample fail; it returns no record for it.
C1_MissingFieldFails ==
    (pc = "done" /\ call.fn = "process_sample"
        /\ (ColLog \notin DOMAIN call.sample \/ ColInfo \notin DOMAIN call.sample))
    => ret.kind = "raise"

(***************************************************************************)
(* datasets.Dataset and datasets.DatasetDict, as process_dataset uses them *)
(***************************************************************************)
\* a Dataset: its column names and its rows, each row a dict over the columns
Dataset(columns, rows) == [t |-> "Dataset", columns |-> columns, rows |-> rows]

\* a DatasetDict: its items in insertion order
DatasetDict(items) == [t |-> "DatasetDict", items |-> items]
Entry(k, v) == [k |-> k, v |-> v]

Orderings(n) == {p \in [1..n -> 1..n] : \A i, j \in 1..n : p[i] = p[j] => i = j}

\* Dataset.shuffle: the rows in the order the generator's permutation gives
Shuffled(data, perm) ==
    Dataset(data.columns, [i \in 1..Len(data.rows) |-> data.rows[perm[i]]])

Range(f) == {f[i] : i \in DOMAIN f}

RECURSIVE UnionOfDomains(_, _)
UnionOfDomains(outs, i) ==
    IF i > Len(outs) THEN {} ELSE DOMAIN outs[i].val \cup UnionOfDomains(outs, i + 1)

\* the places of the rows whose outcome is a return
Kept(outs) == SelectSeq([i \in 1..Len(outs) |-> i], LAMBDA i : outs[i].kind = "return")

\* mutant: a row whose function raises is left out and the rest are kept
MapRows_SkipFailed(data, outs) ==
    Return(Dataset(data.columns \cup UNION {DOMAIN outs[i].val : i \in Range(Kept(outs))},
        [j \in 1..Len(Kept(outs)) |-> outs[Kept(outs)[j]].val @@ data.rows[Kept(outs)[j]]]))

\* Dataset.map(function), outs[i] being what the function gives for row i:
\* the rows are taken in order, the dict returned updates the row, and what
\* the function raises ends the map
MapRows(data, outs) ==
    LET failed == {i \in 1..Len(outs) : outs[i].kind = "raise"}
    IN  IF failed # {} THEN outs[CHOOSE i \in failed : \A j \in failed : i <= j]
        ELSE Return(Dataset(data.columns \cup UnionOfDomains(outs, 1),
                [i \in 1..Len(outs) |-> outs[i].val @@ data.rows[i]]))

Restrict(row, columns) == [c \in columns |-> row[c]]

\* Dataset.remove_columns: a name that is no column of the dataset is an error
RemovedColumns(data, names) ==
    IF ~(names \subseteq data.columns) THEN Raise("ValueError")
    ELSE Return(Dataset(data.columns \ names,
            [i \in 1..Len(data.rows) |-> Restrict(data.rows[i], data.columns \ names)]))

(***************************************************************************)
(* The tokenizer: a callable from a text to a mapping of integer arrays    *)
(***************************************************************************)
Ints(a) == [t |-> "ints", a |-> a]
Tokenizer(kind) == [t |-> "tokenizer", kind |-> kind]

\* what the three tokenizers of the model give: the usual two fields; a field
\* called "text" beside the ids; a failure on a prompt with no response text
Encode(tokenizer, text) ==
    IF tokenizer.kind = "failing" /\ EndsWith(text, ResponseHeader)
        THEN Raise("TokenizerFailure")
    ELSE IF tokenizer.kind = "colliding"
        THEN Return(("input_ids" :> Ints(<<Len(text)>>)) @@ ("text" :> Ints(<<Len(text)>>)))
    ELSE Return(("input_ids" :> Ints(<<Len(text)>>)) @@ ("attention_mask" :> Ints(<<1>>)))

\* lambda x: self.tokenizer(x["text"])
TokenizeRow(me, x) == Encode(me.tokenizer, x["text"].s)

(***************************************************************************)
(* Processor.process_dataset                                               *)
(***************************************************************************)
MaxRows == 2

FullColumns == COLUMNS_TO_REMOVE \cup {"extra"}

\* the columns a dataset may come with: all of them, or all but one
Schemas ==
    { FullColumns, FullColumns \ {"prompt"}, FullColumns \ {ColLog}, FullColumns \ {ColInfo} }

\* three records: one with a summary, one whose summary is blank, one whose
\* dialog info is no JSON
RowKinds == {"first", "second", "corrupt"}

LogOf(kind) ==
    IF kind = "first" THEN <<Turn(<<"a">>, <<"@", "a", " ", "b">>)>>
    ELSE IF kind = "second" THEN <<Turn(<<"a", "\n", "b">>, <<>>)>>
    ELSE <<Turn(<<"a">>, <<"a">>)>>

InfoOf(kind) ==
    IF kind = "first" THEN InfoWith(<<<<"a">>, <<"b">>>>)
    ELSE IF kind = "second" THEN InfoWith(<<<<" ">>>>)
    ELSE NotJson

Row(kind, columns) ==
    [c \in columns |->
        IF c = ColLog THEN PyList(LogOf(kind))
        ELSE IF c = ColInfo THEN PyStr(InfoOf(kind))
        ELSE IF c = "extra" THEN PyStr(<<kind>>)
        ELSE Opaque]

DatasetOf(kinds, columns) ==
    Dataset(columns, [i \in 1..Len(kinds) |-> Row(kinds[i], columns)])

RowKindSeqs == UNION {[1..n -> RowKinds] : n \in 0..MaxRows}

\* whether to tokenize, and the tokenizer the instance holds
TokenizeSettings ==
    { <<FALSE, Tokenizer("plain")>>, <<TRUE, None>>, <<TRUE, Tokenizer("plain")>>,
      <<TRUE, Tokenizer("colliding")>>, <<TRUE, Tokenizer("failing")>> }

\* a single Dataset of any schema, or a DatasetDict of no split, of "train",
\* or of "train" and "validation"
InitDataset ==
    /\ \E ts \in TokenizeSettings :
        /\ self = Processor(ts[2], DEFAULT_SYSTEM_PROMPT, DEFAULT_SEED)
        /\ \/ \E ks \in RowKindSeqs, cols \in Schemas :
                call = [fn |-> "process_dataset", dataset |-> DatasetOf(ks, cols),
                        tokenize |-> ts[1]]
           \/ call = [fn |-> "process_dataset", dataset |-> DatasetDict(<<>>),
                      tokenize |-> ts[1]]
           \/ \E ks \in RowKindSeqs :
                call = [fn |-> "process_dataset", tokenize |-> ts[1], dataset |->
                        DatasetDict(<<Entry("train", DatasetOf(ks, FullColumns))>>)]
           \/ \E ks1 \in RowKindSeqs, ks2 \in RowKindSeqs :
                call = [fn |-> "process_dataset", tokenize |-> ts[1], dataset |->
                        DatasetDict(<<Entry("train", DatasetOf(ks1, FullColumns)),
                                      Entry("validation", DatasetOf(ks2, FullColumns))>>)]
    /\ pc = "call"
    /\ ret = NoOutcome
    /\ Idle

\* the locals while split k is in hand: the items still to do and those done
Locals(todo, k, data, out) == [todo |-> todo, k |-> k, data |-> data, out |-> out]

\* an exception leaves process_dataset: the call is over, nothing is returned
Propagate(outcome) ==
    /\ ret' = outcome
    /\ pc' = "done"
    /\ local' = NoLocals

\* isinstance(dataset, DatasetDict): the comprehension starts on the first
\* item, or _process is called on the dataset itself
Begin ==
    /\ pc = "call"
    /\ call.fn = "process_dataset"
    /\ IF call.dataset.t = "DatasetDict"
       THEN IF call.dataset.items = <<>>
            THEN /\ ret' = Return(DatasetDict(<<>>))
                 /\ pc' = "done"
                 /\ local' = NoLocals
            ELSE /\ local' = Locals(Tail(call.dataset.items), Head(call.dataset.items).k,
                                    Head(call.dataset.items).v, <<>>)
                 /\ pc' = "shuffle"
                 /\ ret' = ret
       ELSE /\ local' = Locals(<<>>, "", call.dataset, <<>>)
            /\ pc' = "shuffle"
            /\ ret' = ret
    /\ UNCHANGED <<self, call, previous, generator>>

\* mutant: shuffle() without the seed draws a fresh permutation every time
Shuffle_Unseeded ==
    /\ pc = "shuffle"
    /\ \E perm \in Orderings(Len(local.data.rows)) :
        /\ generator' = (Len(local.data.rows) :> perm) @@ generator
        /\ local' = [local EXCEPT !.data = Shuffled(local.data, perm)]
    /\ pc' = "map"
    /\ UNCHANGED <<self, call, ret, previous>>

\* data.shuffle(seed=self.seed): the generator seeded with self.seed gives one
\* permutation for each length, whichever it is
Shuffle ==
    /\ pc = "shuffle"
    /\ LET n == Len(local.data.rows)
       IN  \E perm \in Orderings(n) :
            /\ n \in DOMAIN generator => perm = generator[n]
            /\ generator' = (n :> perm) @@ generator
            /\ local' = [local EXCEPT !.data = Shuffled(local.data, perm)]
    /\ pc' = "map"
    /\ UNCHANGED <<self, call, ret, previous>>

\* .map(self.process_sample)
MapSamples ==
    /\ pc = "map"
    /\ \E mapped \in {MapRows(local.data,
            [i \in 1..Len(local.data.rows) |-> process_sample(self, local.data.rows[i])])} :
           IF mapped.kind = "raise" THEN Propagate(mapped)
           ELSE /\ local' = [local EXCEPT !.data = mapped.val]
                /\ pc' = "remove_columns"
                /\ ret' = ret
    /\ UNCHANGED <<self, call, previous, generator>>

\* .remove_columns(self.COLUMNS_TO_REMOVE)
RemoveColumns ==
    /\ pc = "remove_columns"
    /\ \E removed \in {RemovedColumns(local.data, COLUMNS_TO_REMOVE)} :
           IF removed.kind = "raise" THEN Propagate(removed)
           ELSE /\ local' = [local EXCEPT !.data = removed.val]
                /\ pc' = "tokenize"
                /\ ret' = ret
    /\ UNCHANGED <<self, call, previous, generator>>

\* if tokenize and self.tokenizer: data = data.map(lambda x: self.tokenizer(x["text"]))
Tokenize ==
    /\ pc = "tokenize"
    /\ IF call.tokenize /\ self.tokenizer # None
       THEN \E mapped \in {MapRows(local.data,
                [i \in 1..Len(local.data.rows) |-> TokenizeRow(self, local.data.rows[i])])} :
                IF mapped.kind = "raise" THEN Propagate(mapped)
                ELSE /\ local' = [local EXCEPT !.data = mapped.val]
                     /\ pc' = "collect"
                     /\ ret' = ret
       ELSE /\ pc' = "collect"
            /\ UNCHANGED <<local, ret>>
    /\ UNCHANGED <<self, call, previous, generator>>

\* mutant: a split left with no row is not put in the result
Collected_NoEmpty(out, k, data) ==
    IF data.rows = <<>> THEN out ELSE Append(out, Entry(k, data))

\* the item the comprehension adds for split k
Collected(out, k, data) == Append(out, Entry(k, data))

\* return data: _process hands the split back, to the caller or to the
\* comprehension, which goes on to the next item or builds the DatasetDict
Collect ==
    /\ pc = "collect"
    /\ IF call.dataset.t = "Dataset"
       THEN /\ ret' = Return(local.data)
            /\ pc' = "done"
            /\ local' = NoLocals
       ELSE LET out == Collected(local.out, local.k, local.data)
            IN  IF local.todo = <<>>
                THEN /\ ret' = Return(DatasetDict(out))
                     /\ pc' = "done"
                     /\ local' = NoLocals
                ELSE /\ local' = Locals(Tail(local.todo), Head(local.todo).k,
                                        Head(local.todo).v, out)
                     /\ pc' = "shuffle"
                     /\ ret' = ret
    /\ UNCHANGED <<self, call, previous, generator>>

\* process_dataset is called once more on the same instance and dataset
CallAgain ==
    /\ pc = "done"
    /\ call.fn = "process_dataset"
    /\ previous' = ret
    /\ ret' = NoOutcome
    /\ pc' = "call"
    /\ UNCHANGED <<self, call, local, generator>>

NextDataset ==
    \/ Begin
    \/ Shuffle
    \/ MapSamples
    \/ RemoveColumns
    \/ Tokenize
    \/ Collect
    \/ CallAgain

SpecDataset == InitDataset /\ [][NextDataset]_vars

(***************************************************************************)
(* Properties of process_dataset                                           *)
(***************************************************************************)
\* the splits of a corpus, a single Dataset counting as one split without a name
SplitsOf(corpus) ==
    IF corpus.t = "Dataset" THEN <<Entry("", corpus)>> ELSE corpus.items

InSplits == SplitsOf(call.dataset)
OutSplits == SplitsOf(ret.val)

Returned == pc = "done" /\ call.fn = "process_dataset" /\ ret.kind = "return"

Tokenizing == call.tokenize /\ self.tokenizer # None

\* the record of the input that row j of output split i was made from
SourceRow(i, j) ==
    LET rows == InSplits[i].v.rows IN rows[generator[Len(rows)][j]]

\* process_sample or the tokenizer raises on this record
FailsOn(row) ==
    LET processed == process_sample(self, row)
    IN  \/ processed.kind = "raise"
        \/ Tokenizing /\ Encode(self.tokenizer, processed.val["text"].s).kind = "raise"

\* C4: when every record can be processed, process_dataset completes, no
\* output record holds a dropped column, and every other input column is kept,
\* also for a corpus that lacks some of the dropped columns.
C4_ColumnsPruned ==
    (/\ pc = "done"
     /\ call.fn = "process_dataset"
     /\ \A i \in 1..Len(InSplits) :
            /\ {ColLog, ColInfo} \subseteq InSplits[i].v.columns
            /\ \A j \in 1..Len(InSplits[i].v.rows) : ~FailsOn(InSplits[i].v.rows[j]))
    =>  /\ ret.kind = "return"
        /\ \A i \in 1..Len(OutSplits) : \A j \in 1..Len(OutSplits[i].v.rows) :
            /\ DOMAIN OutSplits[i].v.rows[j] \cap COLUMNS_TO_REMOVE = {}
            /\ (InSplits[i].v.columns \ COLUMNS_TO_REMOVE) \subseteq DOMAIN OutSplits[i].v.rows[j]

\* C5: nothing is returned before the call ends; a corpus is returned only if
\* no record of any split made process_sample or the tokenizer raise, and then
\* every record of every split has been processed.
C5_FailFast ==
    call.fn = "process_dataset" =>
        /\ pc # "done" => ret = NoOutcome
        /\ Returned =>
            /\ Len(OutSplits) = Len(InSplits)
            /\ \A i \in 1..Len(InSplits) :
                /\ \A j \in 1..Len(InSplits[i].v.rows) : ~FailsOn(InSplits[i].v.rows[j])
                /\ Len(OutSplits[i].v.rows) = Len(InSplits[i].v.rows)
                /\ \A j \in 1..Len(OutSplits[i].v.rows) :
                    {"conversation", "summary", "text"} \subseteq DOMAIN OutSplits[i].v.rows[j]

\* the first split was processed in full, a record of the second one is
\* corrupt, and the call ended with the error and no result
C5_Witness ==
    /\ pc = "done"
    /\ call.fn = "process_dataset"
    /\ call.dataset = DatasetDict(<<Entry("train", DatasetOf(<<"first", "second">>, FullColumns)),
                                    Entry("validation", DatasetOf(<<"first", "corrupt">>, FullColumns))>>)
    /\ ret = Raise("JSONDecodeError")

\* C6: the result has the shape of the input, the same split names, and in
\* each split as many records as the input split.
C6_SameShape ==
    Returned =>
        /\ ret.val.t = call.dataset.t
        /\ Len(OutSplits) = Len(InSplits)
        /\ \A i \in 1..Len(InSplits) :
            /\ OutSplits[i].k = InSplits[i].k
            /\ Len(OutSplits[i].v.rows) = Len(InSplits[i].v.rows)

\* two named splits, the second with no record, processed and tokenized
C6_Witness ==
    /\ Returned
    /\ Tokenizing
    /\ call.dataset.t = "DatasetDict"
    /\ Len(InSplits) = 2
    /\ Len(InSplits[1].v.rows) = 2
    /\ Len(InSplits[2].v.rows) = 0
    /\ Len(OutSplits) = 2

\* C7: a second call on the same instance and corpus ends as the first did,
\* and row j of each returned split is the processed record that the seeded
\* permutation puts at place j.
C7_Deterministic ==
    (pc = "done" /\ call.fn = "process_dataset") =>
        /\ previous.kind # "none" => ret = previous
        /\ ret.kind = "return" =>
            /\ Len(OutSplits) = Len(InSplits)
            /\ \A i \in 1..Len(InSplits) :
                /\ Len(OutSplits[i].v.rows) = Len(InSplits[i].v.rows)
                /\ \A j \in 1..Len(OutSplits[i].v.rows) :
                    LET processed == process_sample(self, SourceRow(i, j)).val
                        row == OutSplits[i].v.rows[j]
                    IN  /\ row["extra"] = SourceRow(i, j)["extra"]
                        /\ row["conversation"] = processed["conversation"]
                        /\ row["summary"] = processed["summary"]

\* the second call has returned, as the first one did, and the shuffle had
\* put the second record first
C7_Witness ==
    /\ Returned
    /\ previous.kind = "return"
    /\ call.dataset = DatasetOf(<<"first", "second">>, FullColumns)
    /\ generator[2] = <<2, 1>>
    /\ ret.val.rows[1]["extra"] = PyStr(<<"second">>)

\* C8: with tokenization, every returned record holds the tokenizer's fields
\* for its text, and conversation, summary and text as process_sample made them.
C8_TokenizeKeepsFields ==
    (Returned /\ Tokenizing) =>
        \A i \in 1..Len(OutSplits) : \A j \in 1..Len(OutSplits[i].v.rows) :
            LET processed == process_sample(self, SourceRow(i, j)).val
                tokens == Encode(self.tokenizer, processed["text"].s).val
                row == OutSplits[i].v.rows[j]
            IN  /\ \A f \in DOMAIN tokens : f \in DOMAIN row /\ row[f] = tokens[f]
                /\ row["conversation"] = processed["conversation"]
                /\ row["summary"] = processed["summary"]
                /\ row["text"] = processed["text"]

====
